---- MODULE Spec2Model ----
(***************************************************************************)
(* Model of examples/03_monitoring_alerts.py: the WebsiteMonitor class     *)
(* (results file, previous_state window, change detection, alerting,       *)
(* reporting) and the scheduled_monitoring loop that drives it.            *)
(*                                                                         *)
(* Prices are integers (currency units); timestamps are values of a        *)
(* logical clock that advances once per check.                             *)
(***************************************************************************)
EXTENDS Integers, Sequences, FiniteSets, TLC

VARIABLES
    file,            \* monitoring_results.json: [exists, items]
    previous_state,  \* WebsiteMonitor.previous_state: dict url -> result dict
    pc,              \* position of scheduled_monitoring / monitor_products
    urls,            \* argument urls of scheduled_monitoring
    max_runs,        \* argument max_runs of scheduled_monitoring
    fetchable,       \* what the pages of this run can show (environment)
    run,             \* loop variable of "for run in range(max_runs)"
    idx,             \* position of "for url in urls" (1-based)
    changes,         \* local changes of monitor_products
    result,          \* local result of monitor_products
    clock,           \* datetime.now()
    alerted,         \* timestamps of the checks send_alert was called for
    reports,         \* the reports printed so far, in order
    sleeps,          \* number of time.sleep calls made
    fetched,         \* outcome of every check_product_page call, in order
    crash,           \* the exception that ended the process, or "none"
    initLen,         \* number of records in the file when the process began
    tickStart,       \* previous_state as it was when the current run began
    thr              \* concurrent callers of save_result (SpecConc only)

vars == <<file, previous_state, pc, urls, max_runs, fetchable, run, idx,
          changes, result, clock, alerted, reports, sleeps, fetched, crash,
          initLen, tickStart, thr>>

-----------------------------------------------------------------------------
(* Bounds of the model *)

MaxRuns == 2        \* largest max_runs explored with the full page domain
MaxSchedRuns == 12  \* max_runs of the long scheduled run

(* Program constants *)

WindowSize == 10    \* data[-10:]
ReportEvery == 6    \* (run + 1) % 6 == 0

-----------------------------------------------------------------------------
(* Python values *)

None == [tag |-> "None"]
PyList(s) == [tag |-> "list", items |-> s]
PyStr(s) == [tag |-> "str", s |-> s]
EmptyDict == [k \in {} |-> TRUE]

FirstTime == <<"First time monitoring this product">>
FetchFailed == "Failed to extract product data"

(* dict.get(key) is None: the key is missing *)
Missing(d, k) == k \notin DOMAIN d

(* self.previous_state.get(url) *)
Get(d, k) == IF k \in DOMAIN d THEN d[k] ELSE None

(* d[k] = v on a dict *)
DictSet(d, k, v) == [x \in (DOMAIN d) \cup {k} |-> IF x = k THEN v ELSE d[x]]

(* s[-n:] *)
Tail_n(s, n) == IF Len(s) <= n THEN s ELSE SubSeq(s, Len(s) - n + 1, Len(s))

(* s[:n] *)
Head_n(s, n) == IF Len(s) <= n THEN s ELSE SubSeq(s, 1, n)

Abs(x) == IF x < 0 THEN -x ELSE x

-----------------------------------------------------------------------------
(* JSON text of the results file.  An object is the sequence of its        *)
(* <<key, value>> members in writing order; null stands for None.          *)

JsonNull == [tag |-> "null"]

ToJson(v) == IF v = None THEN JsonNull ELSE v
FromJson(v) == IF v = JsonNull THEN None ELSE v

DataKeys == <<"name", "price", "in_stock", "last_checked">>

RECURSIVE DumpObj(_, _)
DumpObj(d, keys) ==
    IF keys = <<>> THEN <<>>
    ELSE IF Head(keys) \in DOMAIN d
         THEN <<(<<Head(keys), d[Head(keys)]>>)>> \o DumpObj(d, Tail(keys))
         ELSE DumpObj(d, Tail(keys))

LoadObj(p) ==
    [k \in {p[i][1] : i \in DOMAIN p} |->
        LET i == CHOOSE j \in DOMAIN p : p[j][1] = k IN p[i][2]]

(* json.dump of one result dict *)
JsonDumpResult(d) ==
    << <<"timestamp", d.timestamp>>,
       <<"url", d.url>>,
       <<"status", d.status>>,
       <<"data", DumpObj(d.data, DataKeys)>>,
       <<"changes", ToJson(d.changes)>>,
       <<"error_message", ToJson(d.error_message)>> >>

(* json.load of one object of the file *)
JsonLoadResult(p) ==
    LET o == LoadObj(p) IN
    [timestamp |-> o.timestamp,
     url |-> o.url,
     status |-> o.status,
     data |-> LoadObj(o.data),
     changes |-> FromJson(o.changes),
     error_message |-> FromJson(o.error_message)]

WellFormed(obj) == [wf |-> TRUE, pairs |-> obj]
Garbage == [wf |-> FALSE]

(* json.load raises JSONDecodeError unless the whole text parses *)
JsonDecodable(items) == \A i \in DOMAIN items : items[i].wf

JsonLoad(items) == [i \in DOMAIN items |-> JsonLoadResult(items[i].pairs)]
JsonDump(results) == [i \in DOMAIN results |-> WellFormed(JsonDumpResult(results[i]))]

-----------------------------------------------------------------------------
(* MonitoringResult and ProductMonitor *)

ProductMonitor(page, now) ==
    [name |-> page.name, price |-> page.price, in_stock |-> page.in_stock,
     last_checked |-> now]

MonitoringResult(ts, url, status, data, chg, err) ==
    [timestamp |-> ts, url |-> url, status |-> status, data |-> data,
     changes |-> chg, error_message |-> err]

(* result.model_dump() *)
ModelDump(r) ==
    [timestamp |-> r.timestamp, url |-> r.url, status |-> r.status,
     data |-> r.data, changes |-> r.changes, error_message |-> r.error_message]

-----------------------------------------------------------------------------
(* WebsiteMonitor *)

(* a load_previous_state that keeps the last record of every url of the log *)
LoadPreviousState_WholeLog(f) ==
    IF ~f.exists THEN EmptyDict
    ELSE LET t == JsonLoad(f.items) IN
         [u \in {t[i].url : i \in DOMAIN t} |->
            LET last == CHOOSE i \in DOMAIN t :
                            /\ t[i].url = u
                            /\ \A j \in DOMAIN t : t[j].url = u => j <= i
            IN t[last]]

(* load_previous_state: {r['url']: r for r in data[-10:]} *)
LoadPreviousState(f) ==
    IF ~f.exists THEN EmptyDict
    ELSE LET t == Tail_n(JsonLoad(f.items), WindowSize) IN
         [u \in {t[i].url : i \in DOMAIN t} |->
            LET last == CHOOSE i \in DOMAIN t :
                            /\ t[i].url = u
                            /\ \A j \in DOMAIN t : t[j].url = u => j <= i
            IN t[last]]

(* save_result, lines 64-67: results = json.load(f) when the file exists *)
ReadResults(f) == IF f.exists THEN JsonLoad(f.items) ELSE <<>>

(* open(self.results_file, 'w') leaves zero bytes, which json.load rejects *)
Truncated == [exists |-> TRUE, items |-> <<Garbage>>]

(* save_result, lines 69-72: append the dump and write the whole list *)
WrittenFile(results, r) ==
    [exists |-> TRUE, items |-> JsonDump(Append(results, ModelDump(r)))]

(* a save_result that forgets what the file held *)
SavedFile_Overwrite(f, r) == WrittenFile(<<>>, r)

(* save_result, from the file it reads to the file it writes *)
SavedFile(f, r) == WrittenFile(ReadResults(f), r)

(* the three comparisons of detect_changes *)
PriceChange(prev_data, current) ==
    IF Missing(prev_data, "price") \/ prev_data.price # current.price
    THEN LET old_price == IF Missing(prev_data, "price") THEN 0 ELSE prev_data.price
             diff == current.price - old_price
             direction == IF diff > 0 THEN "increased" ELSE "decreased"
         IN << <<"Price", direction, old_price, current.price, Abs(diff)>> >>
    ELSE <<>>

StockChange(prev_data, current) ==
    IF Missing(prev_data, "in_stock") \/ prev_data.in_stock # current.in_stock
    THEN << <<"Stock status changed to", IF current.in_stock THEN "IN STOCK" ELSE "OUT OF STOCK">> >>
    ELSE <<>>

NameChange(prev_data, current) ==
    IF Missing(prev_data, "name") \/ prev_data.name # current.name
    THEN << <<"Product name changed", IF Missing(prev_data, "name") THEN "None" ELSE prev_data.name,
              current.name>> >>
    ELSE <<>>

(* a detect_changes that also compares the time of the check *)
DetectChanges_ComparesLastChecked(current, previous) ==
    IF previous = None \/ DOMAIN previous = {} \/ "data" \notin DOMAIN previous
    THEN <<FirstTime>>
    ELSE PriceChange(previous.data, current)
         \o StockChange(previous.data, current)
         \o NameChange(previous.data, current)
         \o (IF Missing(previous.data, "last_checked")
                 \/ previous.data.last_checked # current.last_checked
              THEN << <<"Last checked changed">> >> ELSE <<>>)

(* detect_changes *)
DetectChanges(current, previous) ==
    IF previous = None \/ DOMAIN previous = {} \/ "data" \notin DOMAIN previous
    THEN <<FirstTime>>
    ELSE PriceChange(previous.data, current)
         \o StockChange(previous.data, current)
         \o NameChange(previous.data, current)

(* a classification that counts the first-observation entry as a change *)
StatusOf_CountsFirstTime(chg) == IF chg # <<>> /\ Len(chg) >= 1 THEN "changed" ELSE "success"

(* status='changed' if changes and len(changes) > 1 else 'success' *)
StatusOf(chg) == IF chg # <<>> /\ Len(chg) > 1 THEN "changed" ELSE "success"

(* an alert condition that fires for any non-empty list *)
ShouldAlert_AnyEntry(chg) == Len(chg) >= 1

(* if len(changes) > 1: self.send_alert(...) *)
ShouldAlert(chg) == Len(chg) > 1

(* the result of a successful check *)
SuccessResult(url, current, chg) ==
    MonitoringResult(current.last_checked, url, StatusOf(chg), current,
                     IF chg # <<>> THEN PyList(chg) ELSE None, None)

(* the result of a failed check *)
ErrorResult(url, now) ==
    MonitoringResult(now, url, "error", EmptyDict, None, PyStr(FetchFailed))

(* a condition that passes over results holding only the first-time entry *)
HasChanges_SkipsFirstTime(r) ==
    /\ "changes" \in DOMAIN r
    /\ r.changes # None
    /\ \E k \in DOMAIN r.changes.items : r.changes.items[k] # FirstTime

(* r.get('changes') as a condition *)
HasChanges(r) ==
    /\ "changes" \in DOMAIN r
    /\ r.changes # None
    /\ r.changes.items # <<>>

RECURSIVE Filter(_, _)
Filter(s, keep) ==
    IF s = <<>> THEN <<>>
    ELSE IF s[1] \in keep THEN <<s[1]>> \o Filter(Tail(s), keep)
         ELSE Filter(Tail(s), keep)

CountStatus(results, st) == Cardinality({i \in DOMAIN results : results[i].status = st})

(* generate_report *)
GenerateReport(f) ==
    IF ~f.exists THEN [available |-> FALSE]
    ELSE LET results == JsonLoad(f.items)
             last20 == Tail_n(results, 20)
             recent_changes == Filter(last20, {last20[i] : i \in {j \in DOMAIN last20 : HasChanges(last20[j])}})
             shown == Tail_n(recent_changes, 5)
         IN [available |-> TRUE,
             total |-> Len(results),
             products |-> Cardinality({results[i].url : i \in DOMAIN results}),
             successes |-> CountStatus(results, "success"),
             changed |-> CountStatus(results, "changed"),
             errors |-> CountStatus(results, "error"),
             recent_count |-> Len(recent_changes),
             recent |-> [i \in DOMAIN shown |->
                            [timestamp |-> shown[i].timestamp, url |-> shown[i].url,
                             changes |-> Head_n(shown[i].changes.items, 3)]]]

-----------------------------------------------------------------------------
(* The environment: what a page can show, and the results file the process *)
(* finds when it starts.                                                   *)

Page(n, p, s) == [name |-> n, price |-> p, in_stock |-> s]

Pages == {Page("X", 10, TRUE), Page("X", 8, TRUE), Page("X", 10, FALSE),
          Page("Y", 10, FALSE)}

OnePage == {Page("X", 10, TRUE)}

(* a page alternates between two of its versions during one process *)
PagePairs == {S \in SUBSET Pages : Cardinality(S) = 2}

NoFile == [exists |-> FALSE, items |-> <<>>]
FileOf(results) == [exists |-> TRUE, items |-> JsonDump(results)]

EarlierA == SuccessResult("A", ProductMonitor(Page("X", 10, TRUE), 1), <<FirstTime>>)

(* files left by earlier runs of the program *)
EarlierFiles ==
    {NoFile,
     FileOf(<<>>),
     FileOf(<<EarlierA>>),
     FileOf(<<EarlierA, ErrorResult("B", 2)>>),
     FileOf(<<EarlierA, ErrorResult("A", 2)>>)}

(* a file whose last write was cut short *)
DamagedFiles ==
    {[exists |-> TRUE, items |-> Append(JsonDump(<<EarlierA>>), Garbage)]}

(* the result the program saves for a page seen at time ts, given the
   window entry prev of its url *)
Observed(url, page, ts, prev) ==
    SuccessResult(url, ProductMonitor(page, ts),
                  DetectChanges(ProductMonitor(page, ts), prev))

TargetNames == <<"T1", "T2", "T3", "T4", "T5", "T6", "T7", "T8", "T9", "T10",
                 "T11", "T12">>

(* one first observation of each of more than WindowSize targets *)
ManyTargetsLog ==
    [i \in 1..Len(TargetNames) |->
        Observed(TargetNames[i], Page("X", 10, TRUE), i, None)]

(* one record of A followed by WindowSize records of B *)
CrowdedOutLog ==
    [i \in 1..(WindowSize + 1) |->
        IF i = 1 THEN EarlierA
        ELSE IF i = 2 THEN Observed("B", Page("X", 8, TRUE), i, None)
        ELSE Observed("B", Page("X", 8, TRUE), i,
                      Observed("B", Page("X", 8, TRUE), 2, None))]

(* A answers, B fails, turn by turn *)
AlternatingLog ==
    [i \in 1..(WindowSize + 2) |->
        IF i = 1 THEN EarlierA
        ELSE IF i % 2 = 0 THEN ErrorResult("B", i)
        ELSE Observed("A", Page("X", 10, TRUE), i, EarlierA)]

(* three records with changes, then twenty quiet checks *)
QuietLog ==
    LET r1 == Observed("A", Page("X", 8, TRUE), 1, None)
        r2 == Observed("A", Page("X", 10, FALSE), 2, r1)
        r3 == Observed("A", Page("X", 8, TRUE), 3, r2)
    IN [i \in 1..23 |->
          IF i = 1 THEN r1 ELSE IF i = 2 THEN r2 ELSE IF i = 3 THEN r3
          ELSE Observed("A", Page("X", 8, TRUE), i, r3)]

(* files a process finds after many earlier runs *)
LongFiles ==
    {FileOf(ManyTargetsLog), FileOf(CrowdedOutLog), FileOf(AlternatingLog),
     FileOf(QuietLog)}

NoThreads == [t \in {} |-> TRUE]

InitWith(f, u, m, pages) ==
    /\ file = f
    /\ previous_state = EmptyDict
    /\ pc = "start"
    /\ urls = u
    /\ max_runs = m
    /\ fetchable = pages
    /\ run = 0
    /\ idx = 1
    /\ changes = <<>>
    /\ result = None
    /\ clock = Len(f.items) + 1
    /\ alerted = {}
    /\ reports = <<>>
    /\ sleeps = 0
    /\ fetched = <<>>
    /\ crash = "none"
    /\ initLen = Len(f.items)
    /\ tickStart = EmptyDict
    /\ thr = NoThreads

(* short runs over two products whose pages vary *)
InitShort ==
    \E f \in EarlierFiles \cup DamagedFiles, m \in 0..MaxRuns, pages \in PagePairs :
        InitWith(f, <<"A", "B">>, m, pages)

(* long runs over one product *)
InitLong ==
    \E m \in {ReportEvery, MaxSchedRuns} :
        InitWith(NoFile, <<"A">>, m, OnePage)

(* a process started on a long log *)
InitRestart ==
    \E f \in LongFiles, u \in {<<"A", "B">>, <<"T1", "A">>}, m \in 0..1 :
        InitWith(f, u, m, {Page("X", 8, TRUE), Page("X", 10, FALSE)})

Init == InitShort \/ InitLong \/ InitRestart

-----------------------------------------------------------------------------
(* scheduled_monitoring and monitor_products, one step at a time *)

mainVars == <<previous_state, pc, urls, max_runs, fetchable, run, idx, changes,
              result, clock, alerted, reports, sleeps, fetched, crash, initLen,
              tickStart>>

(* monitor = WebsiteMonitor(): __init__ calls load_previous_state *)
Construct ==
    /\ pc = "start"
    /\ ~file.exists \/ JsonDecodable(file.items)
    /\ previous_state' = LoadPreviousState(file)
    /\ pc' = "loop"
    /\ UNCHANGED <<file, urls, max_runs, fetchable, run, idx, changes, result,
                   clock, alerted, reports, sleeps, fetched, crash, initLen, tickStart, thr>>

(* json.load raises in load_previous_state; nothing catches it *)
ConstructJsonError ==
    /\ pc = "start"
    /\ file.exists /\ ~JsonDecodable(file.items)
    /\ pc' = "crashed"
    /\ crash' = "JSONDecodeError"
    /\ UNCHANGED <<file, previous_state, urls, max_runs, fetchable, run, idx,
                   changes, result, clock, alerted, reports, sleeps, fetched,
                   initLen, tickStart, thr>>

(* a loop that also runs when run equals max_runs *)
StartRun_Inclusive ==
    /\ pc = "loop"
    /\ run <= max_runs
    /\ pc' = "check"
    /\ idx' = 1
    /\ tickStart' = previous_state
    /\ UNCHANGED <<file, previous_state, urls, max_runs, fetchable, run,
                   changes, result, clock, alerted, reports, sleeps, fetched,
                   crash, initLen, thr>>

(* for run in range(max_runs): monitor.monitor_products(urls) begins *)
StartRun ==
    /\ pc = "loop"
    /\ run < max_runs
    /\ pc' = "check"
    /\ idx' = 1
    /\ tickStart' = previous_state
    /\ UNCHANGED <<file, previous_state, urls, max_runs, fetchable, run,
                   changes, result, clock, alerted, reports, sleeps, fetched,
                   crash, initLen, thr>>

(* the for loop is exhausted *)
EndLoop ==
    /\ pc = "loop"
    /\ run >= max_runs
    /\ pc' = "final"
    /\ UNCHANGED <<file, previous_state, urls, max_runs, fetchable, run, idx,
                   changes, result, clock, alerted, reports, sleeps, fetched,
                   crash, initLen, tickStart, thr>>

(* check_product_page returned a ProductMonitor: lines 205-221 *)
CheckProduct(page) ==
    /\ pc = "check"
    /\ idx <= Len(urls)
    /\ LET url == urls[idx]
           current == ProductMonitor(page, clock)
           previous == Get(previous_state, url)
           chg == DetectChanges(current, previous)
       IN /\ changes' = chg
          /\ result' = SuccessResult(url, current, chg)
          /\ fetched' = Append(fetched, current)
    /\ clock' = clock + 1
    /\ pc' = "alert"
    /\ UNCHANGED <<file, previous_state, urls, max_runs, fetchable, run, idx,
                   alerted, reports, sleeps, crash, initLen, tickStart, thr>>

(* check_product_page returned None: lines 238-246 *)
CheckProductFailed ==
    /\ pc = "check"
    /\ idx <= Len(urls)
    /\ result' = ErrorResult(urls[idx], clock)
    /\ fetched' = Append(fetched, None)
    /\ clock' = clock + 1
    /\ pc' = "save_error"
    /\ UNCHANGED <<file, previous_state, urls, max_runs, fetchable, run, idx,
                   changes, alerted, reports, sleeps, crash, initLen, tickStart, thr>>

(* a check that saves its result first and alerts afterwards *)
SendAlert_AfterSave ==
    /\ pc = "alert"
    /\ ShouldAlert(changes)
    /\ ~file.exists \/ JsonDecodable(file.items)
    /\ file' = SavedFile(file, result)
    /\ alerted' = alerted \cup {result.timestamp}
    /\ pc' = "update"
    /\ UNCHANGED <<previous_state, urls, max_runs, fetchable, run, idx,
                   changes, result, clock, reports, sleeps, fetched, crash,
                   initLen, tickStart, thr>>

(* lines 224-225 *)
SendAlert ==
    /\ pc = "alert"
    /\ ShouldAlert(changes)
    /\ alerted' = alerted \cup {result.timestamp}
    /\ pc' = "save"
    /\ UNCHANGED <<file, previous_state, urls, max_runs, fetchable, run, idx,
                   changes, result, clock, reports, sleeps, fetched, crash,
                   initLen, tickStart, thr>>

(* lines 226-227 *)
NoAlert ==
    /\ pc = "alert"
    /\ ~ShouldAlert(changes)
    /\ pc' = "save"
    /\ UNCHANGED <<file, previous_state, urls, max_runs, fetchable, run, idx,
                   changes, result, clock, alerted, reports, sleeps, fetched,
                   crash, initLen, tickStart, thr>>

(* self.save_result(result) at line 230 *)
SaveResult ==
    /\ pc = "save"
    /\ ~file.exists \/ JsonDecodable(file.items)
    /\ file' = SavedFile(file, result)
    /\ pc' = "update"
    /\ UNCHANGED <<previous_state, urls, max_runs, fetchable, run, idx, changes,
                   result, clock, alerted, reports, sleeps, fetched, crash,
                   initLen, tickStart, thr>>

(* an error branch that moves on without saving *)
SaveErrorResult_NotRecorded ==
    /\ pc = "save_error"
    /\ idx' = idx + 1
    /\ pc' = "check"
    /\ UNCHANGED <<file, previous_state, urls, max_runs, fetchable, run, changes,
                   result, clock, alerted, reports, sleeps, fetched, crash,
                   initLen, tickStart, thr>>

(* self.save_result(result) at line 247, then the next url *)
SaveErrorResult ==
    /\ pc = "save_error"
    /\ ~file.exists \/ JsonDecodable(file.items)
    /\ file' = SavedFile(file, result)
    /\ idx' = idx + 1
    /\ pc' = "check"
    /\ UNCHANGED <<previous_state, urls, max_runs, fetchable, run, changes,
                   result, clock, alerted, reports, sleeps, fetched, crash,
                   initLen, tickStart, thr>>

(* open() raises OSError in save_result; nothing catches it *)
SaveResultIOError ==
    /\ pc \in {"save", "save_error"}
    /\ pc' = "crashed"
    /\ crash' = "OSError"
    /\ UNCHANGED <<file, previous_state, urls, max_runs, fetchable, run, idx,
                   changes, result, clock, alerted, reports, sleeps, fetched,
                   initLen, tickStart, thr>>

(* an update that replaces the whole window by the one new entry *)
UpdatePreviousState_Replace ==
    /\ pc = "update"
    /\ previous_state' = DictSet(EmptyDict, urls[idx], ModelDump(result))
    /\ idx' = idx + 1
    /\ pc' = "check"
    /\ UNCHANGED <<file, urls, max_runs, fetchable, run, changes, result, clock,
                   alerted, reports, sleeps, fetched, crash, initLen, tickStart, thr>>

(* self.previous_state[url] = result.model_dump(), then the next url *)
UpdatePreviousState ==
    /\ pc = "update"
    /\ previous_state' = DictSet(previous_state, urls[idx], ModelDump(result))
    /\ idx' = idx + 1
    /\ pc' = "check"
    /\ UNCHANGED <<file, urls, max_runs, fetchable, run, changes, result, clock,
                   alerted, reports, sleeps, fetched, crash, initLen, tickStart, thr>>

(* monitor_products returns *)
EndProducts ==
    /\ pc = "check"
    /\ idx > Len(urls)
    /\ pc' = "report"
    /\ UNCHANGED <<file, previous_state, urls, max_runs, fetchable, run, idx,
                   changes, result, clock, alerted, reports, sleeps, fetched,
                   crash, initLen, tickStart, thr>>

(* a report condition on the loop variable itself *)
ReportDue_LoopVariable(r) == r % ReportEvery = 0

(* if (run + 1) % 6 == 0: print(monitor.generate_report()) *)
ReportDue(r) == (r + 1) % ReportEvery = 0

PeriodicReport ==
    /\ pc = "report"
    /\ ReportDue(run)
    /\ reports' = Append(reports, [kind |-> "periodic", after |-> run + 1,
                                   text |-> GenerateReport(file)])
    /\ pc' = "wait"
    /\ UNCHANGED <<file, previous_state, urls, max_runs, fetchable, run, idx,
                   changes, result, clock, alerted, sleeps, fetched, crash,
                   initLen, tickStart, thr>>

NoPeriodicReport ==
    /\ pc = "report"
    /\ ~ReportDue(run)
    /\ pc' = "wait"
    /\ UNCHANGED <<file, previous_state, urls, max_runs, fetchable, run, idx,
                   changes, result, clock, alerted, reports, sleeps, fetched,
                   crash, initLen, tickStart, thr>>

(* if run < max_runs - 1: time.sleep(wait_seconds); then the next run *)
Sleep ==
    /\ pc = "wait"
    /\ run < max_runs - 1
    /\ sleeps' = sleeps + 1
    /\ run' = run + 1
    /\ pc' = "loop"
    /\ UNCHANGED <<file, previous_state, urls, max_runs, fetchable, idx, changes,
                   result, clock, alerted, reports, fetched, crash, initLen, tickStart, thr>>

(* a stop signal (SIGINT) arrives during time.sleep: KeyboardInterrupt is
   raised there and nothing catches it *)
StopDuringSleep ==
    /\ pc = "wait"
    /\ run < max_runs - 1
    /\ sleeps' = sleeps + 1
    /\ pc' = "stopped"
    /\ crash' = "KeyboardInterrupt"
    /\ UNCHANGED <<file, previous_state, urls, max_runs, fetchable, run, idx,
                   changes, result, clock, alerted, reports, fetched, initLen,
                   tickStart, thr>>

NoSleep ==
    /\ pc = "wait"
    /\ ~(run < max_runs - 1)
    /\ run' = run + 1
    /\ pc' = "loop"
    /\ UNCHANGED <<file, previous_state, urls, max_runs, fetchable, idx, changes,
                   result, clock, alerted, reports, sleeps, fetched, crash,
                   initLen, tickStart, thr>>

(* print(monitor.generate_report()) after the loop *)
FinalReport ==
    /\ pc = "final"
    /\ reports' = Append(reports, [kind |-> "final", after |-> run,
                                   text |-> GenerateReport(file)])
    /\ pc' = "done"
    /\ UNCHANGED <<file, previous_state, urls, max_runs, fetchable, run, idx,
                   changes, result, clock, alerted, sleeps, fetched, crash,
                   initLen, tickStart, thr>>

Next ==
    \/ Construct
    \/ ConstructJsonError
    \/ StartRun
    \/ EndLoop
    \/ \E page \in fetchable : CheckProduct(page)
    \/ CheckProductFailed
    \/ SendAlert
    \/ NoAlert
    \/ SaveResult
    \/ SaveErrorResult
    \/ SaveResultIOError
    \/ UpdatePreviousState
    \/ EndProducts
    \/ PeriodicReport
    \/ NoPeriodicReport
    \/ Sleep
    \/ StopDuringSleep
    \/ NoSleep
    \/ FinalReport

Spec == Init /\ [][Next]_vars

-----------------------------------------------------------------------------
(* Two callers inside save_result at the same time.  save_result takes no  *)
(* lock: reading the file, truncating it and writing it are separate steps. *)

Threads == {1, 2}

Appended == {ErrorResult("A", 10),
             SuccessResult("B", ProductMonitor(Page("X", 8, TRUE), 10), <<FirstTime>>)}

InitConc ==
    \E f \in EarlierFiles, r1 \in Appended, r2 \in Appended :
        /\ file = f
        /\ previous_state = EmptyDict
        /\ pc = "idle"
        /\ urls = <<"A", "B">>
        /\ max_runs = 0
        /\ fetchable = {}
        /\ run = 0
        /\ idx = 1
        /\ changes = <<>>
        /\ result = None
        /\ clock = 12
        /\ alerted = {}
        /\ reports = <<>>
        /\ sleeps = 0
        /\ fetched = <<>>
        /\ crash = "none"
        /\ initLen = Len(f.items)
        /\ tickStart = EmptyDict
        /\ thr = [t \in Threads |->
                    [pc |-> "call", results |-> <<>>,
                     result |-> [IF t = 1 THEN r1 ELSE r2 EXCEPT !.timestamp = 9 + t]]]

(* lines 64-67 *)
ThreadRead(t) ==
    /\ thr[t].pc = "call"
    /\ ~file.exists \/ JsonDecodable(file.items)
    /\ thr' = [thr EXCEPT ![t].results = ReadResults(file), ![t].pc = "loaded"]
    /\ UNCHANGED file
    /\ UNCHANGED mainVars

(* json.load raises in save_result *)
ThreadReadJsonError(t) ==
    /\ thr[t].pc = "call"
    /\ file.exists /\ ~JsonDecodable(file.items)
    /\ thr' = [thr EXCEPT ![t].pc = "raised"]
    /\ UNCHANGED file
    /\ UNCHANGED mainVars

(* line 71: open(..., 'w') *)
ThreadOpenForWrite(t) ==
    /\ thr[t].pc = "loaded"
    /\ file' = Truncated
    /\ thr' = [thr EXCEPT ![t].pc = "opened"]
    /\ UNCHANGED mainVars

(* lines 69 and 72 *)
ThreadWrite(t) ==
    /\ thr[t].pc = "opened"
    /\ file' = WrittenFile(thr[t].results, thr[t].result)
    /\ thr' = [thr EXCEPT ![t].pc = "done"]
    /\ UNCHANGED mainVars

NextConc ==
    \E t \in Threads :
        \/ ThreadRead(t)
        \/ ThreadReadJsonError(t)
        \/ ThreadOpenForWrite(t)
        \/ ThreadWrite(t)

SpecConc == InitConc /\ [][NextConc]_vars

-----------------------------------------------------------------------------
(* Properties *)

(* what a reload of the results file yields *)
Log == IF file.exists /\ JsonDecodable(file.items) THEN JsonLoad(file.items) ELSE <<>>

NumUrls == Len(urls)

(* the url the product loop is at *)
Url == urls[idx]

CanonicalFields == {"price", "in_stock", "name"}

(* the baseline holds a snapshot *)
HasSnapshot(prev) == prev # None /\ "data" \in DOMAIN prev /\ CanonicalFields \subseteq DOMAIN prev.data

DifferingFields(prev_data, data) == {k \in CanonicalFields : prev_data[k] # data[k]}

(* C1: when the previous result of a target has a snapshot and the new
   snapshot differs from it in exactly one canonical field, the change list
   holds exactly one descriptor, which is not the first-observation entry,
   and the saved result has status changed. *)
C1_OneFieldChanged ==
    (/\ pc = "update"
     /\ HasSnapshot(Get(previous_state, Url))
     /\ Cardinality(DifferingFields(previous_state[Url].data, result.data)) = 1)
    => LET L == Log IN
       /\ Len(changes) = 1
       /\ changes[1] # FirstTime
       /\ L[Len(L)].status = "changed"

(* C2: a successful check of a target without a window entry yields the
   first-observation entry alone, is saved with status success, and
   dispatches no alert. *)
C2_FirstObservation ==
    LET L == Log IN
    /\ (pc = "update" /\ Url \notin DOMAIN previous_state)
        => /\ changes = <<FirstTime>>
           /\ L[Len(L)].timestamp = result.timestamp
           /\ L[Len(L)].changes = PyList(<<FirstTime>>)
           /\ L[Len(L)].status = "success"
    /\ \A k \in (initLen + 1)..Len(L) :
          L[k].changes = PyList(<<FirstTime>>)
            => L[k].status = "success" /\ L[k].timestamp \notin alerted

C2_Witness ==
    /\ pc = "update"
    /\ Url \notin DOMAIN previous_state
    /\ Log[Len(Log)].timestamp = result.timestamp
    /\ alerted # {}

(* the number of results the process has saved when it is at pc *)
Saved ==
    IF pc \in {"start", "idle"} THEN 0
    ELSE IF pc \in {"loop", "final", "done"} THEN run * NumUrls
    ELSE IF pc = "update" THEN run * NumUrls + idx
    ELSE run * NumUrls + idx - 1

(* C3: every check of every run appends exactly one result, for the urls in
   order; a failed fetch is saved with status error and an error message and
   the checks after it are still made, so the log grows by one record per
   url per run. *)
C3_OneResultPerCheck ==
    pc \notin {"start", "crashed"} =>
        LET L == Log IN
        /\ Len(L) = initLen + Saved
        /\ \A k \in 1..Saved :
             LET r == L[initLen + k] IN
             /\ r.url = urls[((k - 1) % NumUrls) + 1]
             /\ (fetched[k] = None) <=> (r.status = "error")
             /\ fetched[k] = None =>
                  r.error_message = PyStr(FetchFailed) /\ r.data = EmptyDict
             /\ fetched[k] # None =>
                  r.error_message = None /\ r.data = fetched[k]

C3_Witness ==
    /\ pc = "done"
    /\ run = 2
    /\ NumUrls = 2
    /\ Len(Log) = initLen + 4
    /\ fetched[1] = None
    /\ fetched[2] # None
    /\ fetched[4] = None

(* C4: the log is append-only: a save keeps every record the file held, in
   place and unchanged, adds exactly one record at the end, and a reload
   returns the saved results in the order they were saved. *)
C4_AppendOnly ==
    [][file' # file =>
         /\ file'.exists
         /\ Len(file'.items) = Len(file.items) + 1
         /\ SubSeq(file'.items, 1, Len(file.items)) = file.items
         /\ JsonDecodable(file'.items)
         /\ JsonLoad(file'.items) = Append(ReadResults(file), result)]_vars

C4_Witness ==
    LET L == Log IN
    /\ initLen = 2
    /\ Len(L) = initLen + 4
    /\ \E k \in (initLen + 1)..Len(L) : L[k].status = "changed"
    /\ \E k \in (initLen + 1)..Len(L) : L[k].status = "error"

(* the last record of url u among the records t *)
LatestOf(t, u) ==
    LET last == CHOOSE i \in DOMAIN t :
                   t[i].url = u /\ \A j \in DOMAIN t : t[j].url = u => j <= i
    IN t[last]

(* C5: between checks, every window entry is the latest saved result of its
   target among the last WindowSize saved results. *)
C5_WindowIsLatest ==
    pc \in {"loop", "check", "report", "wait", "final", "done"} =>
        LET t == Tail_n(Log, WindowSize) IN
        \A u \in DOMAIN previous_state :
            /\ \E i \in DOMAIN t : t[i].url = u
            /\ previous_state[u] = LatestOf(t, u)

(* C6: an alert is dispatched for a check if and only if the result saved
   for it has status changed. *)
C6_AlertIffChanged ==
    LET L == Log IN
    /\ \A k \in (initLen + 1)..Len(L) :
          (L[k].timestamp \in alerted) <=> (L[k].status = "changed")
    /\ pc \in {"save", "update"} =>
          ((result.timestamp \in alerted) <=> (result.status = "changed"))
    /\ \A ts \in alerted :
          \/ \E k \in (initLen + 1)..Len(L) :
                L[k].timestamp = ts /\ L[k].status = "changed"
          \/ result # None /\ result.timestamp = ts /\ result.status = "changed"

C6_Witness ==
    LET L == Log IN
    /\ \E k \in (initLen + 1)..Len(L) :
          L[k].status = "changed" /\ L[k].timestamp \in alerted
    /\ \E k \in (initLen + 1)..Len(L) :
          L[k].status = "success" /\ L[k].changes = None
    /\ \E k \in (initLen + 1)..Len(L) : L[k].status = "error"

(* C7: an I/O error while appending a result does not end the scheduler. *)
C7_SaveFailureSurvived == crash # "OSError"

(* C8: when two appends interleave, both records end up in the log, whole. *)
C8_BothAppended ==
    (\A t \in DOMAIN thr : thr[t].pc \in {"done", "raised"}) =>
        /\ \A t \in DOMAIN thr : thr[t].pc = "done"
        /\ file.exists /\ JsonDecodable(file.items)
        /\ LET L == Log IN
           /\ Len(L) = initLen + Cardinality(DOMAIN thr)
           /\ \A t \in DOMAIN thr : \E k \in DOMAIN L : L[k] = thr[t].result

(* C9: a malformed record never makes a load of the log fail. *)
C9_MalformedTolerated == crash # "JSONDecodeError"

(* the number of runs whose report step has been taken *)
RunsReported == IF pc \in {"wait", "stopped"} THEN run + 1 ELSE run

(* C10: a report is generated after every ReportEvery-th run and once more
   when the loop has ended, and at no other point. *)
C10_ReportSchedule ==
    LET n == RunsReported \div ReportEvery
        fin == IF pc = "done" THEN 1 ELSE 0
    IN /\ Len(reports) = n + fin
       /\ \A i \in 1..n :
             reports[i].kind = "periodic" /\ reports[i].after = ReportEvery * i
       /\ fin = 1 =>
             reports[n + 1].kind = "final" /\ reports[n + 1].after = max_runs

C10_Witness ==
    /\ pc = "done"
    /\ Len(reports) = 3
    /\ reports[2].kind = "periodic"

(* C11: a stop signal that arrives during the sleep between two runs ends the
   scheduler without another run, and the final report is still generated. *)
C11_StopStillReports ==
    pc = "stopped" =>
        /\ Len(fetched) = (run + 1) * NumUrls
        /\ reports # <<>>
        /\ reports[Len(reports)].kind = "final"

(* C12: the window rebuilt from the log holds at most
   min(WindowSize, number of distinct targets of the log) entries, and each
   entry is the last record of its target among the final WindowSize records
   of the log. *)
C12_WindowRebuilt ==
    (pc = "loop" /\ run = 0) =>
        LET L == Log
            w == previous_state
        IN /\ Cardinality(DOMAIN w) <= WindowSize
           /\ Cardinality(DOMAIN w) <= Cardinality({L[i].url : i \in DOMAIN L})
           /\ \A u \in DOMAIN w :
                \E i \in DOMAIN L :
                   /\ i > Len(L) - WindowSize
                   /\ L[i].url = u
                   /\ L[i] = w[u]
                   /\ \A j \in DOMAIN L : j > i => L[j].url # u

C12_Witness ==
    /\ pc = "loop"
    /\ run = 0
    /\ Cardinality(DOMAIN previous_state) = WindowSize
    /\ Cardinality({Log[i].url : i \in DOMAIN Log}) > WindowSize

(* C13: the window never holds more than WindowSize entries. *)
C13_WindowBounded == Cardinality(DOMAIN previous_state) <= WindowSize

(* the report of the file as it is *)
ReportNow == GenerateReport(file)

(* C14: the report's total is the number of records, its product count the
   number of distinct targets, its three status counts the numbers of records
   of each status, summing to the total; after A = (X, 10, in stock) and a
   failed B in the first run and A = (X, 8, in stock) in the second, the
   report shows total 3, targets 2, successes 1, changed 1, errors 1. *)
C14_ReportCounts ==
    (file.exists /\ JsonDecodable(file.items)) =>
        LET L == Log
            rep == ReportNow
        IN /\ rep.total = Len(L)
           /\ rep.products = Cardinality({L[i].url : i \in DOMAIN L})
           /\ rep.successes = Cardinality({i \in DOMAIN L : L[i].status = "success"})
           /\ rep.changed = Cardinality({i \in DOMAIN L : L[i].status = "changed"})
           /\ rep.errors = Cardinality({i \in DOMAIN L : L[i].status = "error"})
           /\ rep.successes + rep.changed + rep.errors = rep.total
           /\ (/\ urls = <<"A", "B">>
               /\ initLen = 0
               /\ Len(L) = 3
               /\ Len(fetched) = 3
               /\ fetched[1] = ProductMonitor(Page("X", 10, TRUE), 1)
               /\ fetched[2] = None
               /\ fetched[3] = ProductMonitor(Page("X", 8, TRUE), 3))
              => /\ rep.total = 3
                 /\ rep.products = 2
                 /\ rep.successes = 1
                 /\ rep.changed = 1
                 /\ rep.errors = 1

(* the elements of a set of numbers in ascending order *)
RECURSIVE Ascending(_)
Ascending(S) ==
    IF S = {} THEN <<>>
    ELSE LET mx == CHOOSE x \in S : \A y \in S : y <= x
         IN Append(Ascending(S \ {mx}), mx)

(* the last 5 of the records of L at the positions idxs, in log order, each
   with its first 3 change descriptors *)
Listed(L, idxs) ==
    LET a == Tail_n(Ascending(idxs), 5) IN
    [k \in DOMAIN a |->
        [timestamp |-> L[a[k]].timestamp, url |-> L[a[k]].url,
         changes |-> Head_n(L[a[k]].changes.items, 3)]]

(* a report has just been printed and the file is as the report saw it *)
JustReported ==
    /\ pc = "done" \/ (pc = "wait" /\ ReportDue(run))
    /\ reports # <<>>
    /\ reports[Len(reports)].text.available

NonTrivial(r) ==
    r.changes # None /\ \E k \in DOMAIN r.changes.items : r.changes.items[k] # FirstTime

(* C15 as stated: the recent-changes section lists the last 5 results of the
   whole log that contain a change other than the first-observation entry,
   each with at most its first 3 descriptors. *)
C15_RecentNonTrivial ==
    JustReported =>
        LET L == Log IN
        reports[Len(reports)].text.recent
            = Listed(L, {i \in DOMAIN L : NonTrivial(L[i])})

(* C15 as amended: the recent-changes section lists the last 5 results, among
   the final 20 records of the log, whose change list is not empty (a list
   holding only the first-observation entry counts), in log order, each with
   at most its first 3 descriptors. *)
C15_RecentOfLastTwenty ==
    JustReported =>
        LET L == Log IN
        reports[Len(reports)].text.recent
            = Listed(L, {i \in DOMAIN L : i > Len(L) - 20 /\ L[i].changes # None})

C15_Witness ==
    /\ JustReported
    /\ LET rec == reports[Len(reports)].text.recent IN
       /\ \E k \in DOMAIN rec : rec[k].changes = <<FirstTime>>
       /\ \E k \in DOMAIN rec : Len(rec[k].changes) = 3

(* C16: when the new snapshot agrees with the previous one on price, in_stock
   and name, the change list is empty and the result is saved with status
   success, whatever the time of the check. *)
C16_NoChange ==
    (/\ pc = "update"
     /\ HasSnapshot(Get(previous_state, Url))
     /\ DifferingFields(previous_state[Url].data, result.data) = {})
    => LET L == Log IN
       /\ changes = <<>>
       /\ L[Len(L)].timestamp = result.timestamp
       /\ L[Len(L)].changes = None
       /\ L[Len(L)].status = "success"

C16_Witness ==
    /\ pc = "update"
    /\ HasSnapshot(Get(previous_state, Url))
    /\ DifferingFields(previous_state[Url].data, result.data) = {}
    /\ previous_state[Url].data.last_checked # result.data.last_checked
    /\ Log[Len(Log)].timestamp = result.timestamp

(* the checks of this process whose result is in the log with status changed *)
SavedAsChanged ==
    LET L == Log IN
    {L[k].timestamp : k \in {j \in (initLen + 1)..Len(L) : L[j].status = "changed"}}

(* C17 as stated: the result is appended before the alert is dispatched, so
   every dispatched alert belongs to a changed record already in the log. *)
C17_SavedBeforeAlert == alerted \subseteq SavedAsChanged

(* the alerts whose result is not in the log: that of the result about to be
   saved, or of the result whose save raised *)
AlertsAccounted ==
    alerted = {} \/
    alerted \subseteq
        (SavedAsChanged \cup
           (IF pc \in {"save", "crashed"} /\ result.status = "changed"
            THEN {result.timestamp} ELSE {}))

(* C17 as amended: the alert is dispatched before the result is appended: the
   step that dispatches it leaves the log without the result, the save that
   follows appends that result with status changed, and an alert whose record
   is not in the log is the alert of the result about to be saved or of the
   result whose save raised. *)
C17_AlertBeforeSave ==
    /\ []AlertsAccounted
    /\ [][/\ alerted' # alerted =>
               /\ alerted' = alerted \cup {result.timestamp}
               /\ result.status = "changed"
               /\ file' = file
               /\ result.timestamp \notin SavedAsChanged
          /\ (file' # file /\ result.timestamp \in alerted) =>
               JsonLoadResult(file'.items[Len(file'.items)].pairs) = result]_vars

(* the save of an alerted result raised: its alert stays dispatched with no
   record in the log, next to an earlier alert whose record is there *)
C17_Witness ==
    /\ pc = "crashed"
    /\ crash = "OSError"
    /\ result.timestamp \in alerted
    /\ result.timestamp \notin SavedAsChanged
    /\ SavedAsChanged # {}

(* C18: when the baseline of a check is a result without a snapshot, the
   comparison returns the first-observation entry alone: fields missing from
   the baseline produce no descriptor. *)
C18_NoSnapshotBaseline ==
    (/\ pc \in {"alert", "save", "update"}
     /\ Url \in DOMAIN previous_state
     /\ DOMAIN previous_state[Url].data = {})
    => changes = <<FirstTime>>

(* C19 as stated: with max_runs = 0 the scheduler makes exactly one run over
   all urls before it ends. *)
C19_ZeroMeansOneRun ==
    (pc = "done" /\ max_runs = 0) =>
        /\ Len(fetched) = NumUrls
        /\ Len(Log) = initLen + NumUrls

(* C19 as amended: with max_runs = 0 the scheduler makes no run: no url is
   checked, nothing is saved or alerted, and it ends after the final report
   alone. *)
C19_ZeroMeansNoRun ==
    max_runs = 0 =>
        /\ fetched = <<>>
        /\ alerted = {}
        /\ sleeps = 0
        /\ Len(file.items) = initLen
        /\ pc \in {"start", "idle", "loop", "final", "done", "crashed"}
        /\ pc = "done" => Len(reports) = 1 /\ reports[1].kind = "final"
        /\ pc # "done" => reports = <<>>

(* a scheduler with max_runs = 0 has ended with its final report alone *)
C19_Witness ==
    /\ pc = "done"
    /\ max_runs = 0
    /\ Len(reports) = 1

(* C20: within a run every result's changes are computed against the window
   entry its url had when the run began: the update made for one url leaves
   the entries of the urls still to be checked as they were. *)
C20_BaselineFromTickStart ==
    /\ pc \in {"alert", "save", "update"} =>
          changes = DetectChanges(result.data, Get(tickStart, Url))
    /\ (pc = "check" /\ idx <= NumUrls) =>
          Get(previous_state, Url) = Get(tickStart, Url)

(* the second url of a run is compared, after the first url's entry was
   updated, against its own entry of the start of the run, and has changed *)
C20_Witness ==
    /\ pc = "update"
    /\ idx = 2
    /\ previous_state # tickStart
    /\ HasSnapshot(Get(tickStart, Url))
    /\ Len(changes) = 2

(* C21: a scheduler with max_runs >= 1 that is not stopped, and whose fetches
   all return, ends after its final report having made exactly max_runs runs
   over all urls and max_runs - 1 sleeps. *)
C21_TerminatesCompleted ==
    (max_runs >= 1 /\ pc \in {"done", "crashed"}) =>
        /\ pc = "done"
        /\ run = max_runs
        /\ Len(fetched) = max_runs * NumUrls
        /\ sleeps = max_runs - 1

====
